---- MODULE Spec2Model ----
(***************************************************************************)
(* The position monitor of core/execution.py: one call of                  *)
(* manage_open_puts(client, target_pct, strat_logger) against a brokerage  *)
(* client whose answers are the inputs.                                    *)
(*                                                                         *)
(* Money is held in whole price units.  The resolved option price and the  *)
(* unrealized P&L are held doubled (names ending in 2), so that the mid    *)
(* (bid + ask) / 2 is exact.  target_pct and pnl_percentage are fractions  *)
(* [num, den] with den > 0, compared by cross-multiplication.  All prices  *)
(* of the model are integers and every target but 9/10 is dyadic, so the   *)
(* comparisons agree with the float comparisons of the source.             *)
(*                                                                         *)
(* An optional value (Python None or a value) is a sequence of length at   *)
(* most one: <<>> is None, <<v>> is v.                                     *)
(***************************************************************************)
EXTENDS Integers, Sequences, FiniteSets, TLC

VARIABLES
    pc,                 \* position of the call in manage_open_puts
    target_pct,         \* argument target_pct, a fraction [num, den]
    strat_logger,       \* argument strat_logger: TRUE when one is supplied
    positions,          \* what client.get_positions() returned
    put_positions,      \* the short option positions among them
    underlyings,        \* list of underlyings of the parsed puts
    put_details,        \* dict symbol -> details, in insertion order
    stock_prices,       \* what client.get_stock_latest_trade() returned
    option_snapshots,   \* what client.get_option_snapshot() returned
    positions_to_close, \* the closure decisions (details, reason, pnl)
    closed_positions,   \* the records of the successful closing orders
    orders,             \* every request handed to trade_client.submit_order
    calls,              \* the gateway calls made, in order
    log,                \* the messages logged, in order
    logged_closed,      \* the batches handed to strat_logger.log_closed_puts
    fetch_error,        \* the bulk fetch that raised, "" when none did
    result,             \* outcome of the call
    i_parse,            \* loop index of the parse loop
    i_eval,             \* loop index of the evaluation loop
    i_close,            \* loop index of the closing loop
    allowed_symbols,    \* argument allowed_symbols of sell_puts
    buying_power_in,    \* argument buying_power of sell_puts, as passed
    buying_power,       \* the running budget of sell_puts
    filtered_symbols,   \* what filter_underlying returned
    put_options,        \* the put contracts left after each stage of sell_puts
    i_sell,             \* loop index of the selling loop
    sold,               \* every symbol handed to client.market_sell
    stock_qty,          \* argument stock_qty of sell_calls
    call_options,       \* the call contracts left after filter_options
    scores,             \* what score_options returned for call_options
    strat_log           \* the calls made on strat_logger by the selling workflows

vars == <<pc, target_pct, strat_logger, positions, put_positions, underlyings,
          put_details, stock_prices, option_snapshots, positions_to_close,
          closed_positions, orders, calls, log, logged_closed, fetch_error,
          result, i_parse, i_eval, i_close, allowed_symbols, buying_power_in,
          buying_power, filtered_symbols, put_options, i_sell, sold, stock_qty,
          call_options, scores, strat_log>>

\* the variables of the selling workflows alone
sell_vars == <<allowed_symbols, buying_power_in, buying_power, filtered_symbols,
               put_options, i_sell, sold, stock_qty, call_options, scores, strat_log>>

-----------------------------------------------------------------------------
(* Bounds of the input space *)

MaxPositions == 2
MaxPrice == 3
MaxPremium == 2

-----------------------------------------------------------------------------
(* Values *)

None == <<>>
Some(v) == <<v>>

Abs(n) == IF n < 0 THEN -n ELSE n

\* Python truthiness of an optional number: None and 0 are falsy.
Truthy(x) == x # None /\ x[1] # 0

US_OPTION == "us_option"
US_EQUITY == "us_equity"

AAPL_PUT == "AAPL250920P00150000"
MSFT_PUT == "MSFT250920P00300000"
AAPL_CALL == "AAPL250920C00150000"
INVALID_SYMBOL == "INVALID_SYMBOL"
AAPL_STOCK == "AAPL"

PutSymbols == {AAPL_PUT, MSFT_PUT}

\* target_pct values: 0.25, 0.5, the default 0.90, and 1.0
DefaultTargetPct == [num |-> 9, den |-> 10]
HalfTargetPct == [num |-> 1, den |-> 2]
Targets == {[num |-> 1, den |-> 4], HalfTargetPct,
            DefaultTargetPct, [num |-> 1, den |-> 1]}

Position(sym, qty, price, cls) ==
    [symbol |-> sym, qty |-> qty, avg_entry_price |-> price, asset_class |-> cls]

\* The result of parse_option_symbol: ok = FALSE stands for the ValueError.
parse_option_symbol(sym) ==
    CASE sym = AAPL_PUT  -> [ok |-> TRUE, underlying |-> "AAPL", option_type |-> "P", strike |-> 150]
      [] sym = MSFT_PUT  -> [ok |-> TRUE, underlying |-> "MSFT", option_type |-> "P", strike |-> 300]
      [] sym = AAPL_CALL -> [ok |-> TRUE, underlying |-> "AAPL", option_type |-> "C", strike |-> 150]
      [] OTHER           -> [ok |-> FALSE, underlying |-> "", option_type |-> "", strike |-> 0]

Quote(bid, ask) == [bid_price |-> bid, ask_price |-> ask]
Trade(price) == [price |-> price]
Snapshot(quote, trade) == [latest_quote |-> quote, latest_trade |-> trade]

OptPrices == {None} \cup {Some(p) : p \in 0..MaxPrice}

\* Every snapshot over the prices 0..MaxPrice: the quote and the trade may
\* each be missing, and a quote may lack its bid or its ask.
AllSnapshots ==
    {Snapshot(q, t) :
        q \in {None} \cup {Some(Quote(b, a)) : b \in OptPrices, a \in OptPrices},
        t \in {None} \cup {Some(Trade(p)) : p \in 0..MaxPrice}}

\* Three snapshots for the cycles with several positions: an option that
\* trades at 0, one quoted 1 x 3 and one that trades at 3.
BasicSnapshots ==
    {Snapshot(None, Some(Trade(0))),
     Snapshot(Some(Quote(Some(1), Some(3))), Some(Trade(2))),
     Snapshot(None, Some(Trade(3)))}

\* The positions of the cycles with several positions.
CyclePositions ==
    {Position(s, IF s = AAPL_PUT THEN -1 ELSE -2, p, US_OPTION) :
        s \in PutSymbols, p \in {1, 2}}
    \cup {Position(AAPL_CALL, -1, 2, US_OPTION),
          Position(INVALID_SYMBOL, -1, 2, US_OPTION),
          Position(MSFT_PUT, 1, 2, US_OPTION),
          Position(AAPL_STOCK, -100, 150, US_EQUITY)}

CyclePositionLists == UNION {[1..n -> CyclePositions] : n \in 0..MaxPositions}

\* One short put, of every premium 0..MaxPremium.
QuotePositionLists == {<<Position(AAPL_PUT, -1, p, US_OPTION)>> : p \in 0..MaxPremium}

StockPrice == 149

Maps(keys, values) == UNION {[K -> values] : K \in SUBSET keys}

EmptyMap == [x \in {} |-> 0]

Range(s) == {s[n] : n \in DOMAIN s}

Msg(level, text, about) == <<level, text, about>>

-----------------------------------------------------------------------------
(* The computations of manage_open_puts *)

\* IsShortOption without the test of the quantity.
IsOption(p) == p.asset_class = US_OPTION

\* Line 80: option asset class and a negative quantity.
IsShortOption(p) == p.asset_class = US_OPTION /\ p.qty < 0

\* Lines 97-103: the details kept for a parsed put.
Details(position, parsed) ==
    [symbol          |-> position.symbol,
     underlying      |-> parsed.underlying,
     strike          |-> parsed.strike,
     qty             |-> Abs(position.qty),
     avg_entry_price |-> Abs(position.avg_entry_price),
     position        |-> position]

\* DictSet keeping every value, as a list would.
DictAppend(dict, value) == Append(dict, value)

\* put_details[key] = value on a dict held in insertion order: a key already
\* there keeps its place and takes the new value.
DictSet(dict, value) ==
    IF \E n \in DOMAIN dict : dict[n].symbol = value.symbol
    THEN [n \in DOMAIN dict |-> IF dict[n].symbol = value.symbol THEN value ELSE dict[n]]
    ELSE Append(dict, value)

DictKeys(dict) == {dict[n].symbol : n \in DOMAIN dict}

\* Lines 150-159: the current option price, doubled; None when the position
\* is skipped for want of a price.
CurrentOptionPrice2(snapshot) ==
    IF snapshot.latest_quote # None
    THEN LET quote == snapshot.latest_quote[1] IN
         IF Truthy(quote.bid_price) /\ Truthy(quote.ask_price)
         THEN Some(quote.bid_price[1] + quote.ask_price[1])
         ELSE IF Truthy(quote.ask_price)
              THEN Some(2 * quote.ask_price[1])
              ELSE Some(0)
    ELSE IF snapshot.latest_trade # None
         THEN Some(2 * snapshot.latest_trade[1].price)
         ELSE None

\* Line 164, doubled.
UnrealizedPnl2(premium_collected, price2) == 2 * premium_collected - price2

\* PnlPercentage without the guard on the premium.
PnlPercentageUnguarded(premium_collected, price2) ==
    [num |-> UnrealizedPnl2(premium_collected, price2), den |-> 2 * premium_collected]

\* Lines 167-170: unrealized_pnl / premium_collected, or 0 for no premium.
PnlPercentage(premium_collected, price2) ==
    IF premium_collected > 0
    THEN [num |-> UnrealizedPnl2(premium_collected, price2), den |-> 2 * premium_collected]
    ELSE [num |-> 0, den |-> 1]

\* a >= b for fractions with positive denominators
FracGeq(a, b) == a.num * b.den >= b.num * a.den

FracAbs(a) == [num |-> Abs(a.num), den |-> a.den]

\* ShouldClose with > for >=.
ShouldCloseStrict(pnl_percentage, target) ==
    ~ FracGeq(target, FracAbs(pnl_percentage))

\* Line 174
ShouldClose(pnl_percentage, target) == FracGeq(FracAbs(pnl_percentage), target)

\* Reason with > for >=.
ReasonStrict(pnl_percentage, target) ==
    IF ~ FracGeq(target, pnl_percentage) THEN "profit_target" ELSE "loss_limit"

\* Lines 182-187
Reason(pnl_percentage, target) ==
    IF FracGeq(pnl_percentage, target) THEN "profit_target" ELSE "loss_limit"

\* CloseOrder with the quantity as the position holds it.
CloseOrderSigned(details) ==
    [symbol        |-> details.position.symbol,
     qty           |-> details.position.qty,
     side          |-> "BUY",
     type          |-> "MARKET",
     time_in_force |-> "DAY"]

\* Lines 204-210
CloseOrder(details) ==
    [symbol        |-> details.position.symbol,
     qty           |-> details.qty,
     side          |-> "BUY",
     type          |-> "MARKET",
     time_in_force |-> "DAY"]

\* Lines 215-223
ClosedRecord(decision, order_id) ==
    [symbol            |-> decision.details.position.symbol,
     underlying        |-> decision.details.underlying,
     strike            |-> decision.details.strike,
     reason            |-> decision.reason,
     pnl2              |-> decision.pnl2,
     premium_collected |-> decision.details.avg_entry_price,
     order_id          |-> order_id]

-----------------------------------------------------------------------------
(* The call *)

\* No selling workflow is running.
SellIdle ==
    /\ allowed_symbols = {}
    /\ buying_power_in = 0
    /\ buying_power = 0
    /\ filtered_symbols = {}
    /\ put_options = <<>>
    /\ i_sell = 1
    /\ sold = <<>>
    /\ stock_qty = 0
    /\ call_options = <<>>
    /\ scores = <<>>
    /\ strat_log = <<>>

\* The state on entry to manage_open_puts.
Entry(targets) ==
    /\ SellIdle
    /\ pc = "start"
    /\ target_pct \in targets
    /\ strat_logger \in BOOLEAN
    /\ positions = <<>>
    /\ put_positions = <<>>
    /\ underlyings = <<>>
    /\ put_details = <<>>
    /\ stock_prices = EmptyMap
    /\ option_snapshots = EmptyMap
    /\ positions_to_close = <<>>
    /\ closed_positions = <<>>
    /\ orders = <<>>
    /\ calls = <<>>
    /\ log = <<>>
    /\ logged_closed = <<>>
    /\ fetch_error = ""
    /\ result = "running"
    /\ i_parse = 1
    /\ i_eval = 1
    /\ i_close = 1

Init == Entry({HalfTargetPct, DefaultTargetPct})

InitQuote == Entry(Targets)

\* return None
ReturnNone ==
    /\ result' = "None"
    /\ pc' = "done"

\* an exception leaves the function
Raise ==
    /\ result' = "raised"
    /\ pc' = "done"

\* Lines 79-86: fetch the positions and keep the short option positions.
\* The call is not inside a try: when it raises, the exception leaves the
\* function.
GetPositions(lists) ==
    /\ pc = "start"
    /\ calls' = Append(calls, "get_positions")
    /\ \/ \E ps \in lists :
            /\ positions' = ps
            /\ put_positions' = SelectSeq(ps, IsShortOption)
            /\ IF put_positions' = <<>>
               THEN /\ log' = Append(log, Msg("info", "No open put positions to manage", ""))
                    /\ ReturnNone
               ELSE /\ log' = Append(log, Msg("info", "Managing open put positions", ""))
                    /\ pc' = "parse"
                    /\ UNCHANGED result
          /\ UNCHANGED fetch_error
       \/ /\ fetch_error' = "get_positions"
          /\ Raise
          /\ UNCHANGED <<positions, put_positions, log>>
    /\ UNCHANGED <<target_pct, strat_logger, underlyings, put_details, stock_prices,
                   option_snapshots, positions_to_close, closed_positions, orders,
                   logged_closed, i_parse, i_eval, i_close>>
    /\ UNCHANGED sell_vars

\* the parse loop goes on to its next turn
NextParse ==
    /\ i_parse' = i_parse + 1
    /\ pc' = IF i_parse' > Len(put_positions) THEN "prices" ELSE "parse"
    /\ UNCHANGED result

\* ParseFailed with a return for the continue.
ParseFailedReturns(position) ==
    /\ log' = Append(log, Msg("warning", "Could not parse option symbol", position.symbol))
    /\ ReturnNone
    /\ UNCHANGED i_parse

\* Lines 104-106: the ValueError of the parser is logged and the loop goes on.
ParseFailed(position) ==
    /\ log' = Append(log, Msg("warning", "Could not parse option symbol", position.symbol))
    /\ NextParse

\* Lines 92-106: one turn of the parse loop.
ParsePosition ==
    /\ pc = "parse"
    /\ i_parse <= Len(put_positions)
    /\ LET position == put_positions[i_parse]
           parsed == parse_option_symbol(position.symbol)
       IN  IF parsed.ok
           THEN /\ IF parsed.option_type = "P"
                   THEN /\ underlyings' = Append(underlyings, parsed.underlying)
                        /\ put_details' = DictSet(put_details, Details(position, parsed))
                   ELSE UNCHANGED <<underlyings, put_details>>
                /\ NextParse
                /\ UNCHANGED log
           ELSE /\ ParseFailed(position)
                /\ UNCHANGED <<underlyings, put_details>>
    /\ UNCHANGED <<fetch_error, target_pct, strat_logger, positions, put_positions, stock_prices,
                   option_snapshots, positions_to_close, closed_positions, orders,
                   calls, logged_closed, i_eval, i_close>>
    /\ UNCHANGED sell_vars

\* Lines 108-117: stop when no put was parsed, else fetch the stock prices;
\* a failing fetch is logged and ends the cycle.
GetStockLatestTrade ==
    /\ pc = "prices"
    /\ IF underlyings = <<>>
       THEN /\ log' = Append(log, Msg("info", "No valid put positions found", ""))
            /\ ReturnNone
            /\ UNCHANGED <<calls, stock_prices, fetch_error>>
       ELSE /\ calls' = Append(calls, "get_stock_latest_trade")
            /\ \/ \E prices \in Maps(Range(underlyings), {StockPrice}) :
                    /\ stock_prices' = prices
                    /\ pc' = "snapshots"
                    /\ UNCHANGED <<log, result, fetch_error>>
               \/ /\ fetch_error' = "get_stock_latest_trade"
                  /\ log' = Append(log, Msg("error", "Failed to get stock prices", ""))
                  /\ ReturnNone
                  /\ UNCHANGED stock_prices
    /\ UNCHANGED <<target_pct, strat_logger, positions, put_positions, underlyings,
                   put_details, option_snapshots, positions_to_close, closed_positions,
                   orders, logged_closed, i_parse, i_eval, i_close>>
    /\ UNCHANGED sell_vars

\* Lines 119-127: fetch the option snapshots; a failing fetch is logged and
\* ends the cycle.
GetOptionSnapshot(snapshots) ==
    /\ pc = "snapshots"
    /\ calls' = Append(calls, "get_option_snapshot")
    /\ \/ \E snaps \in Maps(DictKeys(put_details), snapshots) :
            /\ option_snapshots' = snaps
            /\ pc' = "evaluate"
            /\ UNCHANGED <<log, result, fetch_error>>
       \/ /\ fetch_error' = "get_option_snapshot"
          /\ log' = Append(log, Msg("error", "Failed to get option snapshots", ""))
          /\ ReturnNone
          /\ UNCHANGED option_snapshots
    /\ UNCHANGED <<target_pct, strat_logger, positions, put_positions, underlyings,
                   put_details, stock_prices, positions_to_close, closed_positions,
                   orders, logged_closed, i_parse, i_eval, i_close>>
    /\ UNCHANGED sell_vars

\* SkipReason without the test of line 136.
SkipReasonIgnoringStock(details, prices, snaps) ==
    IF details.symbol \notin DOMAIN snaps
    THEN "No option price data"
    ELSE IF CurrentOptionPrice2(snaps[details.symbol]) = None
         THEN "No price data available"
         ELSE ""

\* Lines 136, 143, 150-159: why a position is skipped in the evaluation
\* loop, "" when it is not.
SkipReason(details, prices, snaps) ==
    IF details.underlying \notin DOMAIN prices
    THEN "No stock price data"
    ELSE IF details.symbol \notin DOMAIN snaps
         THEN "No option price data"
         ELSE IF CurrentOptionPrice2(snaps[details.symbol]) = None
              THEN "No price data available"
              ELSE ""

\* Line 191: the decision appended to positions_to_close.
Decision(details, price2, target) ==
    [details |-> details,
     reason  |-> Reason(PnlPercentage(details.avg_entry_price, price2), target),
     pnl2    |-> UnrealizedPnl2(details.avg_entry_price, price2)]

\* Lines 129-191: one turn of the evaluation loop, over put_details in
\* insertion order.
EvaluatePosition ==
    /\ pc = "evaluate"
    /\ i_eval <= Len(put_details)
    /\ LET details == put_details[i_eval]
           skip == SkipReason(details, stock_prices, option_snapshots)
       IN  IF skip # ""
           THEN /\ log' = Append(log, Msg("warning", skip,
                                 IF skip = "No stock price data"
                                 THEN details.underlying ELSE details.symbol))
                /\ UNCHANGED positions_to_close
           ELSE LET price2 == CurrentOptionPrice2(option_snapshots[details.symbol])[1]
                    pnl_percentage == PnlPercentage(details.avg_entry_price, price2)
                    decision == Decision(details, price2, target_pct)
                IN  IF ShouldClose(pnl_percentage, target_pct)
                    THEN /\ log' = log \o <<Msg("info", "P&L%", details.symbol),
                                            Msg("info", IF decision.reason = "profit_target"
                                                        THEN "Profit target reached"
                                                        ELSE "Loss limit reached",
                                                details.symbol)>>
                         /\ positions_to_close' = Append(positions_to_close, decision)
                    ELSE /\ log' = Append(log, Msg("info", "P&L%", details.symbol))
                         /\ UNCHANGED positions_to_close
    /\ i_eval' = i_eval + 1
    /\ pc' = IF i_eval' <= Len(put_details) THEN "evaluate"
             ELSE IF positions_to_close' # <<>> THEN "close" ELSE "report"
    /\ UNCHANGED <<fetch_error, target_pct, strat_logger, positions, put_positions, underlyings,
                   put_details, stock_prices, option_snapshots, closed_positions,
                   orders, calls, logged_closed, result, i_parse, i_close>>
    /\ UNCHANGED sell_vars

\* NextClose fetching the option snapshots again after every order.
NextCloseRefetch ==
    /\ i_close' = i_close + 1
    /\ pc' = "snapshots"
    /\ UNCHANGED result

\* the closing loop goes on to its next turn
NextClose ==
    /\ i_close' = i_close + 1
    /\ pc' = IF i_close' <= Len(positions_to_close) THEN "close" ELSE "report"
    /\ UNCHANGED result

\* SubmitFailed without the except clause: the exception leaves the function.
SubmitFailedPropagates(option_symbol) ==
    /\ log' = Append(log, Msg("info", "Buying back put", option_symbol))
    /\ Raise
    /\ UNCHANGED <<closed_positions, i_close>>

\* SubmitFailed keeping a record of the closure that failed.
SubmitFailedRecorded(option_symbol) ==
    /\ log' = log \o <<Msg("info", "Buying back put", option_symbol),
                       Msg("error", "Failed to close position", option_symbol)>>
    /\ closed_positions' = Append(closed_positions,
                                  ClosedRecord(positions_to_close[i_close], 0))
    /\ NextClose

\* Lines 225-226: the exception of submit_order is caught and logged, no
\* record is kept, and the loop goes on.
SubmitFailed(option_symbol) ==
    /\ log' = log \o <<Msg("info", "Buying back put", option_symbol),
                       Msg("error", "Failed to close position", option_symbol)>>
    /\ UNCHANGED closed_positions
    /\ NextClose

\* Lines 195-226: one turn of the closing loop.  The broker accepts the
\* order and answers with an id, or submit_order raises.
SubmitCloseOrder ==
    /\ pc = "close"
    /\ i_close <= Len(positions_to_close)
    /\ LET decision == positions_to_close[i_close]
           option_symbol == decision.details.position.symbol
           close_order == CloseOrder(decision.details)
           order_id == Len(orders) + 1
       IN  /\ calls' = Append(calls, "submit_order")
           /\ \/ /\ orders' = Append(orders, [request |-> close_order, response |-> Some(order_id)])
                 /\ log' = log \o <<Msg("info", "Buying back put", option_symbol),
                                    Msg("info", "Successfully submitted close order", option_symbol)>>
                 /\ closed_positions' = Append(closed_positions, ClosedRecord(decision, order_id))
                 /\ NextClose
              \/ /\ orders' = Append(orders, [request |-> close_order, response |-> None])
                 /\ SubmitFailed(option_symbol)
    /\ UNCHANGED <<fetch_error, target_pct, strat_logger, positions, put_positions, underlyings,
                   put_details, stock_prices, option_snapshots, positions_to_close,
                   logged_closed, i_parse, i_eval>>
    /\ UNCHANGED sell_vars

\* Lines 228-234: hand the closed records to the strategy logger, log the
\* count and return closed_positions.
Return ==
    /\ pc = "report"
    /\ logged_closed' = IF closed_positions # <<>> /\ strat_logger
                        THEN Append(logged_closed, closed_positions)
                        ELSE logged_closed
    /\ log' = Append(log, Msg("info", "Closed put positions out of total", ""))
    /\ result' = "list"
    /\ pc' = "done"
    /\ UNCHANGED <<fetch_error, target_pct, strat_logger, positions, put_positions, underlyings,
                   put_details, stock_prices, option_snapshots, positions_to_close,
                   closed_positions, orders, calls, i_parse, i_eval, i_close>>
    /\ UNCHANGED sell_vars

\* A cycle over several positions, at the targets 0.5 and 0.90.
Next ==
    \/ GetPositions(CyclePositionLists)
    \/ ParsePosition
    \/ GetStockLatestTrade
    \/ GetOptionSnapshot(BasicSnapshots)
    \/ EvaluatePosition
    \/ SubmitCloseOrder
    \/ Return

Spec == Init /\ [][Next]_vars

\* A cycle over one short put, for every target, premium and snapshot.
NextQuote ==
    \/ GetPositions(QuotePositionLists)
    \/ ParsePosition
    \/ GetStockLatestTrade
    \/ GetOptionSnapshot(AllSnapshots)
    \/ EvaluatePosition
    \/ SubmitCloseOrder
    \/ Return

SpecQuote == InitQuote /\ [][NextQuote]_vars

-----------------------------------------------------------------------------
(* The selling workflows: sell_puts and sell_calls *)

MaxContracts == 3
MaxStrike == 3
MaxBudgetLots == 5

\* shares per contract: the 100 of lines 35 and 49
ContractSize == 100

\* the variables of manage_open_puts alone
monitor_vars == <<target_pct, positions, put_positions, underlyings, put_details,
                  stock_prices, option_snapshots, positions_to_close,
                  closed_positions, orders, logged_closed, fetch_error,
                  i_parse, i_eval, i_close>>

\* No call of manage_open_puts is running.
MonitorIdle ==
    /\ target_pct = DefaultTargetPct
    /\ positions = <<>>
    /\ put_positions = <<>>
    /\ underlyings = <<>>
    /\ put_details = <<>>
    /\ stock_prices = EmptyMap
    /\ option_snapshots = EmptyMap
    /\ positions_to_close = <<>>
    /\ closed_positions = <<>>
    /\ orders = <<>>
    /\ logged_closed = <<>>
    /\ fetch_error = ""
    /\ i_parse = 1
    /\ i_eval = 1
    /\ i_close = 1

ContractSymbols == <<"AAPL251017P00001000", "MSFT251017P00002000",
                     "NVDA251017P00003000", "TSLA251017P00004000",
                     "AMZN251017P00005000">>

ScoreValues == {1, 2}

\* the n-th contract of a catalog, with its strike and the score that
\* score_options gives it
Contract(n, strike, score) ==
    [symbol |-> ContractSymbols[n], strike |-> strike, score |-> score]

\* Every list of up to MaxContracts contracts, as filter_options returns it.
ContractLists ==
    UNION {{[k \in 1..n |-> Contract(k, f[k][1], f[k][2])] :
               f \in [1..n -> (1..MaxStrike) \X ScoreValues]} : n \in 0..MaxContracts}

AllowedSymbolSets == {{}, {"AAPL"}, {"AAPL", "MSFT"}}

BuyingPowers == {ContractSize * k : k \in -1..MaxBudgetLots}

RECURSIVE InsertByScore(_, _)
\* c put into a list held by descending score, after the contracts of an
\* equal score
InsertByScore(sorted, c) ==
    IF sorted = <<>> THEN <<c>>
    ELSE IF Head(sorted).score >= c.score
         THEN <<Head(sorted)>> \o InsertByScore(Tail(sorted), c)
         ELSE <<c>> \o sorted

RECURSIVE select_options(_)
\* select_options(contracts, scores): the contracts by descending score,
\* ties in their given order.
select_options(contracts) ==
    IF contracts = <<>> THEN <<>>
    ELSE InsertByScore(select_options(SubSeq(contracts, 1, Len(contracts) - 1)),
                       contracts[Len(contracts)])

\* The state on entry to sell_puts.
InitSellPuts ==
    /\ MonitorIdle
    /\ pc = "sell_puts"
    /\ strat_logger \in BOOLEAN
    /\ allowed_symbols \in AllowedSymbolSets
    /\ buying_power_in \in BuyingPowers
    /\ buying_power = buying_power_in
    /\ filtered_symbols = {}
    /\ put_options = <<>>
    /\ i_sell = 1
    /\ sold = <<>>
    /\ stock_qty = 0
    /\ call_options = <<>>
    /\ scores = <<>>
    /\ strat_log = <<>>
    /\ calls = <<>>
    /\ log = <<>>
    /\ result = "running"

\* Lines 15-23: nothing to do without symbols or buying power; else filter
\* the underlyings, hand them to the strategy logger and stop when none is
\* left.  Line 20 calls the logger without testing it: with no logger the
\* AttributeError leaves the function.
FilterUnderlying ==
    /\ pc = "sell_puts"
    /\ IF allowed_symbols = {} \/ buying_power <= 0
       THEN /\ ReturnNone
            /\ UNCHANGED <<filtered_symbols, calls, log, strat_log>>
       ELSE \E filtered \in SUBSET allowed_symbols :
               /\ filtered_symbols' = filtered
               /\ calls' = Append(calls, "filter_underlying")
               /\ IF ~ strat_logger
                  THEN /\ Raise
                       /\ log' = Append(log, Msg("info", "Searching for put options", ""))
                       /\ UNCHANGED strat_log
                  ELSE /\ strat_log' = Append(strat_log, <<"set_filtered_symbols", filtered>>)
                       /\ IF filtered = {}
                          THEN /\ log' = log \o <<Msg("info", "Searching for put options", ""),
                                                  Msg("info", "No symbols found with sufficient buying power", "")>>
                               /\ ReturnNone
                          ELSE /\ log' = Append(log, Msg("info", "Searching for put options", ""))
                               /\ pc' = "fetch_puts"
                               /\ UNCHANGED result
    /\ UNCHANGED <<strat_logger, allowed_symbols, buying_power_in, buying_power,
                   put_options, i_sell, sold, stock_qty, call_options, scores>>
    /\ UNCHANGED monitor_vars

\* Lines 24-28: fetch the put contracts and their snapshots, keep the
\* contracts that filter_options lets through and log them.
FetchPutOptions ==
    /\ pc = "fetch_puts"
    /\ calls' = calls \o <<"get_options_contracts", "get_option_snapshot">>
    /\ \E contracts \in ContractLists : put_options' = contracts
    /\ strat_log' = IF strat_logger
                    THEN Append(strat_log, <<"log_put_options", put_options'>>)
                    ELSE strat_log
    /\ pc' = "select_puts"
    /\ UNCHANGED <<strat_logger, allowed_symbols, buying_power_in, buying_power,
                   filtered_symbols, i_sell, sold, stock_qty, call_options, scores,
                   log, result>>
    /\ UNCHANGED monitor_vars

\* Lines 30-33 and 42-43: score and select the contracts, or stop when
\* there is none.
SelectPutOptions ==
    /\ pc = "select_puts"
    /\ IF put_options # <<>>
       THEN /\ log' = Append(log, Msg("info", "Scoring put options", ""))
            /\ put_options' = select_options(put_options)
            /\ pc' = "sell"
            /\ UNCHANGED result
       ELSE /\ log' = Append(log, Msg("info", "No put options found", ""))
            /\ ReturnNone
            /\ UNCHANGED put_options
    /\ UNCHANGED <<strat_logger, allowed_symbols, buying_power_in, buying_power,
                   filtered_symbols, i_sell, sold, stock_qty, call_options, scores,
                   calls, strat_log>>
    /\ UNCHANGED monitor_vars

\* Affordable testing the budget before the decrement.
AffordableBeforeDecrement(budget, strike) == budget >= 0

\* Lines 35-36: the budget after the decrement is not negative.
Affordable(budget, strike) == budget - ContractSize * strike >= 0

\* StopSelling passing over the contract: the budget it found is kept and
\* the loop goes on.
SkipContract(remaining) ==
    /\ buying_power' = buying_power
    /\ i_sell' = i_sell + 1
    /\ IF i_sell' <= Len(put_options)
       THEN pc' = "sell" /\ UNCHANGED result
       ELSE ReturnNone

\* Lines 35-37: the decrement stays and the break ends the loop; the
\* function then returns.
StopSelling(remaining) ==
    /\ buying_power' = remaining
    /\ ReturnNone
    /\ UNCHANGED i_sell

\* Lines 34-41: one turn of the selling loop.
SellPut ==
    /\ pc = "sell"
    /\ i_sell <= Len(put_options)
    /\ LET p == put_options[i_sell] IN
       /\ IF Affordable(buying_power, p.strike)
          THEN /\ buying_power' = buying_power - ContractSize * p.strike
               /\ log' = Append(log, Msg("info", "Selling put", p.symbol))
               /\ calls' = Append(calls, "market_sell")
               /\ sold' = Append(sold, p.symbol)
               /\ strat_log' = IF strat_logger
                               THEN Append(strat_log, <<"log_sold_puts", <<p>>>>)
                               ELSE strat_log
               /\ i_sell' = i_sell + 1
               /\ IF i_sell' <= Len(put_options)
                  THEN pc' = "sell" /\ UNCHANGED result
                  ELSE ReturnNone
          ELSE /\ StopSelling(buying_power - ContractSize * p.strike)
               /\ UNCHANGED <<log, calls, sold, strat_log>>
    /\ UNCHANGED <<strat_logger, allowed_symbols, buying_power_in, filtered_symbols,
                   put_options, stock_qty, call_options, scores>>
    /\ UNCHANGED monitor_vars

NextSellPuts ==
    \/ FilterUnderlying
    \/ FetchPutOptions
    \/ SelectPutOptions
    \/ SellPut

SpecSellPuts == InitSellPuts /\ [][NextSellPuts]_vars

CallSymbols == <<"AAPL251017C00001000", "AAPL251017C00002000",
                 "AAPL251017C00003000", "AAPL251017C00004000",
                 "AAPL251017C00005000">>

CallScoreValues == {1, 2, 3}

\* Every list of up to MaxContracts call contracts, as filter_options
\* returns it, each with the score that score_options gives it.
CallLists ==
    UNION {{[k \in 1..n |-> [symbol |-> CallSymbols[k], score |-> f[k]]] :
               f \in [1..n -> CallScoreValues]} : n \in 0..MaxContracts}

StockQtys == {0, ContractSize - 1, ContractSize, 2 * ContractSize}

\* score_options(contracts): one score per contract, in the order of the
\* contracts.
score_options(contracts) == [k \in 1..Len(contracts) |-> contracts[k].score]

\* argmax taking the lowest score.
argmin(s) ==
    CHOOSE k \in 1..Len(s) :
        /\ \A j \in 1..Len(s) : s[j] >= s[k]
        /\ \A j \in 1..(k - 1) : s[j] > s[k]

\* np.argmax: the first index of the highest value.
argmax(s) ==
    CHOOSE k \in 1..Len(s) :
        /\ \A j \in 1..Len(s) : s[j] <= s[k]
        /\ \A j \in 1..(k - 1) : s[j] < s[k]

\* NotEnoughShares letting through every holding that is not empty.
NoShares(qty) == qty <= 0

\* Line 49: fewer shares than one contract covers.
NotEnoughShares(qty) == qty < ContractSize

\* The state on entry to sell_calls.
InitSellCalls ==
    /\ MonitorIdle
    /\ pc = "sell_calls"
    /\ strat_logger \in BOOLEAN
    /\ stock_qty \in StockQtys
    /\ allowed_symbols = {}
    /\ buying_power_in = 0
    /\ buying_power = 0
    /\ filtered_symbols = {}
    /\ put_options = <<>>
    /\ i_sell = 1
    /\ sold = <<>>
    /\ call_options = <<>>
    /\ scores = <<>>
    /\ strat_log = <<>>
    /\ calls = <<>>
    /\ log = <<>>
    /\ result = "running"

\* Lines 49-54: with fewer than 100 shares the ValueError leaves the
\* function.
CheckShares ==
    /\ pc = "sell_calls"
    /\ IF NotEnoughShares(stock_qty)
       THEN /\ log' = Append(log, Msg("error", "Not enough shares", AAPL_STOCK))
            /\ Raise
       ELSE /\ log' = Append(log, Msg("info", "Searching for call options", AAPL_STOCK))
            /\ pc' = "fetch_calls"
            /\ UNCHANGED result
    /\ UNCHANGED <<strat_logger, calls, strat_log>>
    /\ UNCHANGED <<allowed_symbols, buying_power_in, buying_power, filtered_symbols,
                   put_options, i_sell, sold, stock_qty, call_options, scores>>
    /\ UNCHANGED monitor_vars

\* Lines 55-57: fetch the call contracts of the symbol, keep the contracts
\* that filter_options lets through and log them.
FetchCallOptions ==
    /\ pc = "fetch_calls"
    /\ calls' = Append(calls, "get_options_contracts")
    /\ \E contracts \in CallLists : call_options' = contracts
    /\ strat_log' = IF strat_logger
                    THEN Append(strat_log, <<"log_call_options", call_options'>>)
                    ELSE strat_log
    /\ pc' = "sell_call"
    /\ UNCHANGED <<strat_logger, log, result>>
    /\ UNCHANGED <<allowed_symbols, buying_power_in, buying_power, filtered_symbols,
                   put_options, i_sell, sold, stock_qty, scores>>
    /\ UNCHANGED monitor_vars

\* Lines 59-67: sell the contract of the highest score, or nothing when no
\* contract is left; the function then returns.
SellBestCall ==
    /\ pc = "sell_call"
    /\ IF call_options # <<>>
       THEN /\ scores' = score_options(call_options)
            /\ LET contract == call_options[argmax(scores')] IN
               /\ log' = Append(log, Msg("info", "Selling call option", contract.symbol))
               /\ calls' = Append(calls, "market_sell")
               /\ sold' = Append(sold, contract.symbol)
               /\ strat_log' = IF strat_logger
                               THEN Append(strat_log, <<"log_sold_calls", contract>>)
                               ELSE strat_log
       ELSE /\ log' = Append(log, Msg("info", "No viable call options found", AAPL_STOCK))
            /\ UNCHANGED <<scores, calls, sold, strat_log>>
    /\ ReturnNone
    /\ UNCHANGED <<strat_logger, allowed_symbols, buying_power_in, buying_power,
                   filtered_symbols, put_options, i_sell, stock_qty, call_options>>
    /\ UNCHANGED monitor_vars

NextSellCalls ==
    \/ CheckShares
    \/ FetchCallOptions
    \/ SellBestCall

SpecSellCalls == InitSellCalls /\ [][NextSellCalls]_vars

-----------------------------------------------------------------------------
(* What the claims speak of *)

\* the call has run to its end and returned closed_positions
CycleFinished == pc = "done" /\ result = "list"

\* a closing order for the symbol was handed to submit_order
OrderSubmittedFor(sym) == \E n \in DOMAIN orders : orders[n].request.symbol = sym

\* the broker accepted a closing order for the symbol
OrderAcceptedFor(sym) ==
    \E n \in DOMAIN orders : orders[n].request.symbol = sym /\ orders[n].response # None

\* the returned list holds a record for the symbol
InResult(sym) == \E n \in DOMAIN closed_positions : closed_positions[n].symbol = sym

\* a closure decision was taken for the symbol
DecidedFor(sym) ==
    \E n \in DOMAIN positions_to_close : positions_to_close[n].details.symbol = sym

NeverClosed(sym) == ~ OrderSubmittedFor(sym) /\ ~ InResult(sym) /\ ~ DecidedFor(sym)

\* the evaluation loop resolved a current option price for the position
Resolved(d) == SkipReason(d, stock_prices, option_snapshots) = ""

ResolvedPrice2(d) == CurrentOptionPrice2(option_snapshots[d.symbol])[1]

\* premium - price, doubled
Pnl2(d) == 2 * d.avg_entry_price - ResolvedPrice2(d)

\* pnlPct >= targetPct and pnlPct <= -targetPct for
\* pnlPct = (premium - price) / premium with premium > 0, multiplied out
ProfitReached(d) == Pnl2(d) * target_pct.den >= target_pct.num * 2 * d.avg_entry_price
LossReached(d) == Pnl2(d) * target_pct.den <= - target_pct.num * 2 * d.avg_entry_price

-----------------------------------------------------------------------------
\* C1: a position with a resolved price and a premium > 0 is never closed
\* (no decision, no closing order, no record) while |pnlPct| < targetPct,
\* and once the cycle has run to its end a position with
\* |pnlPct| >= targetPct, the boundary included, has had its closing order
\* submitted and is in the result when the broker accepted the order.
C1_ClosedIffThresholdReached ==
    \A n \in DOMAIN put_details :
        LET d == put_details[n] IN
        (Resolved(d) /\ d.avg_entry_price > 0) =>
            IF ProfitReached(d) \/ LossReached(d)
            THEN CycleFinished =>
                    /\ OrderSubmittedFor(d.symbol)
                    /\ OrderAcceptedFor(d.symbol) => InResult(d.symbol)
            ELSE NeverClosed(d.symbol)

\* a position exactly on the threshold was closed
C1_Witness ==
    /\ CycleFinished
    /\ \E n \in DOMAIN put_details :
          LET d == put_details[n] IN
          /\ Resolved(d)
          /\ d.avg_entry_price > 0
          /\ Pnl2(d) * target_pct.den = target_pct.num * 2 * d.avg_entry_price
          /\ InResult(d.symbol)

\* C2: every closure decision and every closed record carries the reason
\* profit_target exactly when pnlPct >= targetPct and loss_limit exactly
\* when pnlPct <= -targetPct; there is no other reason and never both.
C2_ReasonFollowsSign ==
    /\ \A n \in DOMAIN positions_to_close :
          LET dec == positions_to_close[n] IN
          /\ dec.reason \in {"profit_target", "loss_limit"}
          /\ dec.reason = "profit_target" <=> ProfitReached(dec.details)
          /\ dec.reason = "loss_limit" <=> LossReached(dec.details)
          /\ ~ (ProfitReached(dec.details) /\ LossReached(dec.details))
    /\ \A n \in DOMAIN closed_positions :
          LET rec == closed_positions[n] IN
          \E m \in DOMAIN put_details :
             LET d == put_details[m] IN
             /\ d.symbol = rec.symbol
             /\ rec.reason \in {"profit_target", "loss_limit"}
             /\ rec.reason = "profit_target" <=> ProfitReached(d)
             /\ rec.reason = "loss_limit" <=> LossReached(d)

\* a position exactly on the loss threshold was closed as loss_limit
C2_Witness ==
    \E n \in DOMAIN closed_positions :
       \E m \in DOMAIN put_details :
          LET d == put_details[m] IN
          /\ d.symbol = closed_positions[n].symbol
          /\ closed_positions[n].reason = "loss_limit"
          /\ Pnl2(d) * target_pct.den = - target_pct.num * 2 * d.avg_entry_price

\* the evaluation loop came to the price resolution of the position
PriceResolutionReached(d) ==
    d.underlying \in DOMAIN stock_prices /\ d.symbol \in DOMAIN option_snapshots

\* The price the stated precedence gives, doubled, None when no source
\* yields one: (a) the mid when the quote has a bid and an ask, (b) the ask
\* alone when the bid is absent or zero, (c) the latest trade price when
\* there is no usable quote.  zeroAskAbsent tells whether an ask of 0 counts
\* as absent.
C3_StatedPrice2(snapshot, zeroAskAbsent) ==
    LET quote == snapshot.latest_quote
        trade == snapshot.latest_trade
        hasAsk == /\ quote # None
                  /\ IF zeroAskAbsent THEN Truthy(quote[1].ask_price)
                                      ELSE quote[1].ask_price # None
    IN  IF hasAsk
        THEN IF Truthy(quote[1].bid_price)
             THEN Some(quote[1].bid_price[1] + quote[1].ask_price[1])
             ELSE Some(2 * quote[1].ask_price[1])
        ELSE IF trade # None THEN Some(2 * trade[1].price) ELSE None

\* C3: whenever some source yields a price, the current option price is
\* the one the stated precedence gives (under either reading of an ask
\* of 0).
C3_PricePrecedence ==
    CycleFinished =>
        \A n \in DOMAIN put_details :
            LET d == put_details[n] IN
            PriceResolutionReached(d) =>
                \E zeroAskAbsent \in BOOLEAN :
                    LET stated == C3_StatedPrice2(option_snapshots[d.symbol], zeroAskAbsent) IN
                    stated # None => CurrentOptionPrice2(option_snapshots[d.symbol]) = stated

\* the snapshot has no bid, no ask and no latest trade
C4_NoPriceSource(snapshot) ==
    /\ snapshot.latest_trade = None
    /\ \/ snapshot.latest_quote = None
       \/ /\ snapshot.latest_quote[1].bid_price = None
          /\ snapshot.latest_quote[1].ask_price = None

\* C4: a position whose snapshot yields no price from any of the three
\* sources is skipped: no closing order is submitted for it and it is not
\* in the result.
C4_NoPriceNeverClosed ==
    \A n \in DOMAIN put_details :
        LET d == put_details[n] IN
        (d.symbol \in DOMAIN option_snapshots /\ C4_NoPriceSource(option_snapshots[d.symbol]))
            => ~ OrderSubmittedFor(d.symbol) /\ ~ InResult(d.symbol)

\* C5: a position whose premium collected is 0 has pnlPct = 0 and is never
\* closed, whatever its current option price and the target.
C5_ZeroPremiumNeverClosed ==
    \A n \in DOMAIN put_details :
        LET d == put_details[n] IN
        d.avg_entry_price = 0 =>
            /\ NeverClosed(d.symbol)
            /\ Resolved(d) => PnlPercentage(d.avg_entry_price, ResolvedPrice2(d)).num = 0

\* the cycle ran to its end over a zero-premium position with a resolved
\* price above 0 and closed nothing
C5_Witness ==
    /\ CycleFinished
    /\ \E n \in DOMAIN put_details :
          LET d == put_details[n] IN
          /\ d.avg_entry_price = 0
          /\ Resolved(d)
          /\ ResolvedPrice2(d) > 0
    /\ orders = <<>>

\* an error was logged
ErrorLogged == \E n \in DOMAIN log : log[n][1] = "error"

\* C6: when a bulk fetch fails (positions, stock prices or option
\* snapshots) the failure is logged, the function returns None and no
\* closing order is submitted.
C6_FetchFailureEndsCycle ==
    fetch_error # "" =>
        /\ pc = "done"
        /\ result = "None"
        /\ ErrorLogged
        /\ orders = <<>>

\* C7: once the call is over every closure decision has had its closing
\* order submitted, in order, whichever of the submissions failed; a failed
\* submission leaves no record in the result and an accepted one leaves its
\* record.
C7_SubmitFailureIsolated ==
    pc = "done" =>
        /\ Len(orders) = Len(positions_to_close)
        /\ \A n \in DOMAIN positions_to_close :
              LET sym == positions_to_close[n].details.position.symbol IN
              /\ orders[n].request.symbol = sym
              /\ orders[n].response = None => ~ InResult(sym)
              /\ orders[n].response # None => InResult(sym)
        /\ positions_to_close # <<>> => result = "list"

\* the first of two closing orders failed and the second was accepted and
\* is in the result
C7_Witness ==
    /\ CycleFinished
    /\ Len(orders) = 2
    /\ orders[1].response = None
    /\ orders[2].response # None
    /\ InResult(orders[2].request.symbol)
    /\ ~ InResult(orders[1].request.symbol)

\* there was nothing to evaluate: no short option position, or none parsed
\* as a put
NothingToEvaluate == put_positions = <<>> \/ put_details = <<>>

AcceptedOrders == {n \in DOMAIN orders : orders[n].response # None}

\* C8: the call returns None exactly when there was nothing to evaluate or
\* a bulk fetch failed, and in every other case a list, with one record
\* per closed position.
C8_ReturnValueOutcomes ==
    pc = "done" =>
        /\ result = "None" <=> (NothingToEvaluate \/ fetch_error # "")
        /\ result # "None" =>
              /\ result = "list"
              /\ Len(closed_positions) = Cardinality(AcceptedOrders)

IsPut(position) ==
    LET parsed == parse_option_symbol(position.symbol) IN
    parsed.ok /\ parsed.option_type = "P"

Malformed(position) == ~ parse_option_symbol(position.symbol).ok

\* the position reached the threshold on a resolved price
ThresholdReached(d) ==
    /\ Resolved(d)
    /\ d.avg_entry_price > 0
    /\ ProfitReached(d) \/ LossReached(d)

\* C9: a malformed symbol is skipped with a warning and does not stop the
\* cycle: once the parse loop is over every short option position with a
\* put symbol is in put_details, wherever the malformed ones sit; once the
\* cycle is over every such position that reached the threshold has had its
\* closing order submitted; and when every symbol is malformed the call
\* returns None.
C9_MalformedSymbolSkipped ==
    /\ pc \notin {"start", "parse"} =>
          \A n \in DOMAIN put_positions :
             /\ IsPut(put_positions[n]) => put_positions[n].symbol \in DictKeys(put_details)
             /\ Malformed(put_positions[n]) =>
                   /\ put_positions[n].symbol \notin DictKeys(put_details)
                   /\ \E m \in DOMAIN log :
                         log[m] = Msg("warning", "Could not parse option symbol",
                                      put_positions[n].symbol)
    /\ CycleFinished =>
          \A n \in DOMAIN put_details :
             ThresholdReached(put_details[n]) => OrderSubmittedFor(put_details[n].symbol)
    /\ (pc = "done" /\ put_positions # <<>>
          /\ \A n \in DOMAIN put_positions : Malformed(put_positions[n]))
       => result = "None" /\ orders = <<>>

\* a malformed symbol came first and the put after it was closed
C9_Witness ==
    /\ CycleFinished
    /\ Len(put_positions) = 2
    /\ Malformed(put_positions[1])
    /\ IsPut(put_positions[2])
    /\ InResult(put_positions[2].symbol)

\* the fetched data has no stock price for the underlying of the position
\* or no snapshot for its symbol
DataMissing(d) ==
    d.underlying \notin DOMAIN stock_prices \/ d.symbol \notin DOMAIN option_snapshots

\* C10: a position whose underlying has no stock price or whose symbol has
\* no snapshot is never closed; once the cycle is over its skip was logged
\* as a warning and every other position that reached the threshold has
\* had its closing order submitted.
C10_MissingDataSkipped ==
    \A n \in DOMAIN put_details :
        LET d == put_details[n] IN
        /\ DataMissing(d) => NeverClosed(d.symbol)
        /\ CycleFinished =>
              /\ DataMissing(d) =>
                    \E m \in DOMAIN log :
                       /\ log[m][1] = "warning"
                       /\ log[m][2] \in {"No stock price data", "No option price data"}
                       /\ log[m][3] \in {d.underlying, d.symbol}
              /\ ThresholdReached(d) => OrderSubmittedFor(d.symbol)

\* a position without a stock price was skipped and the position after it
\* was closed
C10_Witness ==
    /\ CycleFinished
    /\ Len(put_details) = 2
    /\ put_details[1].underlying \notin DOMAIN stock_prices
    /\ put_details[1].symbol \in DOMAIN option_snapshots
    /\ ThresholdReached(put_details[2])
    /\ InResult(put_details[2].symbol)
    /\ ~ OrderSubmittedFor(put_details[1].symbol)

\* the position that the n-th closing order was built for
OrderedPosition(n) == positions_to_close[n].details.position

\* a short put: option asset class, negative quantity, a put symbol
ShortPut(p) == p.asset_class = US_OPTION /\ p.qty < 0 /\ IsPut(p)

\* C15: every closing order is a BUY, MARKET, DAY order for the symbol of
\* its position, for the absolute value of the position's negative
\* quantity, which is strictly positive.
C15_CloseOrderShape ==
    \A n \in DOMAIN orders :
        LET position == OrderedPosition(n)
            request == orders[n].request
        IN  /\ position \in Range(positions)
            /\ position.qty < 0
            /\ request.symbol = position.symbol
            /\ request.qty = - position.qty
            /\ request.qty > 0
            /\ request.side = "BUY"
            /\ request.type = "MARKET"
            /\ request.time_in_force = "DAY"

\* A position of -2 contracts was bought back with an order for 2.
C15_Witness ==
    /\ CycleFinished
    /\ \E n \in DOMAIN orders :
          /\ OrderedPosition(n).qty = -2
          /\ orders[n].request.qty = 2
          /\ orders[n].response # None

\* C16: in one cycle there is at most one closure decision, one closing
\* order and one record of the result for an option symbol, whatever list
\* of positions the gateway returned.
C16_OncePerSymbol ==
    /\ \A m, n \in DOMAIN positions_to_close :
          positions_to_close[m].details.symbol = positions_to_close[n].details.symbol => m = n
    /\ \A m, n \in DOMAIN orders :
          orders[m].request.symbol = orders[n].request.symbol => m = n
    /\ \A m, n \in DOMAIN closed_positions :
          closed_positions[m].symbol = closed_positions[n].symbol => m = n

\* The gateway listed the same short put twice, with two entry prices, and
\* the cycle closed it once.
C16_Witness ==
    /\ CycleFinished
    /\ Len(positions) = 2
    /\ positions[1].symbol = positions[2].symbol
    /\ positions[1].avg_entry_price # positions[2].avg_entry_price
    /\ ShortPut(positions[1]) /\ ShortPut(positions[2])
    /\ Len(orders) = 1
    /\ Len(closed_positions) = 1

\* every short option position of the cycle is a call
OnlyShortCalls ==
    /\ \E n \in DOMAIN positions :
          positions[n].asset_class = US_OPTION /\ positions[n].qty < 0
    /\ \A n \in DOMAIN positions :
          (positions[n].asset_class = US_OPTION /\ positions[n].qty < 0) =>
              LET parsed == parse_option_symbol(positions[n].symbol) IN
              parsed.ok /\ parsed.option_type = "C"

\* C17: only short put option positions are closed.  Every decision and
\* every order is for a short put of the list; a position that is no short
\* put gets no order, unless a short put of the list bears its symbol; and
\* when every short option position is a call the call returns None.
C17_OnlyShortPutsClosed ==
    /\ \A n \in DOMAIN positions_to_close :
          /\ OrderedPosition(n) \in Range(positions)
          /\ ShortPut(OrderedPosition(n))
    /\ \A n \in DOMAIN orders : orders[n].request.symbol = OrderedPosition(n).symbol
    /\ \A n \in DOMAIN positions :
          (/\ ~ ShortPut(positions[n])
           /\ \A m \in DOMAIN positions :
                 ShortPut(positions[m]) => positions[m].symbol # positions[n].symbol)
          => NeverClosed(positions[n].symbol)
    /\ (pc = "done" /\ OnlyShortCalls) =>
          /\ result = "None"
          /\ orders = <<>>
          /\ log[Len(log)] = Msg("info", "No valid put positions found", "")

\* A long put stood in the list beside a short put; the cycle closed the
\* short put and left the long one alone.
C17_Witness ==
    /\ CycleFinished
    /\ \E n \in DOMAIN positions :
          /\ positions[n].asset_class = US_OPTION
          /\ positions[n].qty > 0
          /\ IsPut(positions[n])
          /\ ~ OrderSubmittedFor(positions[n].symbol)
    /\ \E n \in DOMAIN positions :
          ShortPut(positions[n]) /\ OrderAcceptedFor(positions[n].symbol)

\* the record that the n-th closing order leaves when the broker accepts it
RecordOf(n) ==
    [symbol            |-> OrderedPosition(n).symbol,
     underlying        |-> positions_to_close[n].details.underlying,
     strike            |-> positions_to_close[n].details.strike,
     reason            |-> positions_to_close[n].reason,
     pnl2              |-> positions_to_close[n].pnl2,
     premium_collected |-> Abs(OrderedPosition(n).avg_entry_price),
     order_id          |-> orders[n].response[1]]

RECURSIVE RecordsOf(_)
\* the records of the accepted orders among the first n, in their order
RecordsOf(n) ==
    IF n = 0 THEN <<>>
    ELSE IF orders[n].response # None
         THEN Append(RecordsOf(n - 1), RecordOf(n))
         ELSE RecordsOf(n - 1)

\* C18: the list that is returned holds one record for each closing order
\* that the broker accepted and no other: the records stand in the order of
\* the submissions and each carries the symbol, reason, pnl and premium of
\* its position and the order id that the broker returned for it.
C18_RecordsMatchAcceptedOrders ==
    /\ closed_positions = RecordsOf(Len(orders))
    /\ \A m, n \in AcceptedOrders : orders[m].response = orders[n].response => m = n

\* The first order failed, the second was accepted: one record, with the
\* id of the second order.
C18_Witness ==
    /\ CycleFinished
    /\ Len(orders) = 2
    /\ orders[1].response = None
    /\ orders[2].response # None
    /\ Len(closed_positions) = 1
    /\ closed_positions[1].order_id = orders[2].response[1]
    /\ closed_positions[1].symbol = orders[2].request.symbol

FetchOrder == <<"get_positions", "get_stock_latest_trade", "get_option_snapshot">>

\* C20: the gateway is used in one order: the positions, the stock prices,
\* the option snapshots, each fetched at most once, then the closing
\* orders.  Every closure decision is taken before the first order is
\* submitted and nothing is fetched after an order.
C20_GatewayCallOrder ==
    /\ [](\A k \in DOMAIN calls :
             calls[k] = IF k <= Len(FetchOrder) THEN FetchOrder[k] ELSE "submit_order")
    /\ [](orders # <<>> => i_eval > Len(put_details))
    /\ [][orders # <<>> => positions_to_close' = positions_to_close]_vars

\* Three fetches, then two closing orders.
C20_Witness ==
    /\ CycleFinished
    /\ calls = FetchOrder \o <<"submit_order", "submit_order">>
    /\ Len(positions_to_close) = 2

-----------------------------------------------------------------------------
(* The selling workflows: what the claims speak of *)

\* sell_puts has returned or raised.
SellFinished == pc = "done"

\* The selling loop of sell_puts was entered: the contracts were selected.
LoopEntered == pc = "sell" \/ (pc = "done" /\ put_options # <<>>)

RECURSIVE CostOf(_)
\* the collateral of the first n selected contracts
CostOf(n) ==
    IF n = 0 THEN 0 ELSE CostOf(n - 1) + ContractSize * put_options[n].strike

\* The first selected contract that the running budget cannot pay for, or
\* one past the list when it pays for all.
FirstUnaffordable ==
    IF \E k \in 1..Len(put_options) : CostOf(k) > buying_power_in
    THEN CHOOSE k \in 1..Len(put_options) :
            /\ CostOf(k) > buying_power_in
            /\ \A j \in 1..(k - 1) : CostOf(j) <= buying_power_in
    ELSE Len(put_options) + 1

SoldIsPrefix ==
    /\ Len(sold) <= Len(put_options)
    /\ \A k \in 1..Len(sold) : sold[k] = put_options[k].symbol

ScoreDescending ==
    \A k \in 1..(Len(put_options) - 1) : put_options[k].score >= put_options[k + 1].score

\* C11: the selected contracts are walked by descending score with one
\* running budget; the contracts sold are always a prefix of the selected
\* list in its order, and once the loop has ended the prefix stops just
\* before the first contract the budget could not pay for, whatever fits
\* after it.
C11_SoldPrefixOfSelected ==
    LoopEntered =>
        /\ ScoreDescending
        /\ SoldIsPrefix
        /\ Len(sold) < FirstUnaffordable
        /\ SellFinished => Len(sold) = FirstUnaffordable - 1

\* A sale stopped at a contract too dear although a later, cheaper one
\* would have fitted what was left.
C11_Witness ==
    /\ LoopEntered
    /\ SellFinished
    /\ Len(sold) >= 1
    /\ \E j \in (Len(sold) + 2)..Len(put_options) :
          CostOf(Len(sold)) + ContractSize * put_options[j].strike <= buying_power_in

\* sell_puts was given symbols and buying power and filter_underlying kept
\* no underlying.
NoUnderlyingLeft ==
    /\ allowed_symbols # {}
    /\ buying_power_in > 0
    /\ \E k \in 1..Len(calls) : calls[k] = "filter_underlying"
    /\ filtered_symbols = {}

\* C12: when sell_puts has symbols and buying power and the affordability
\* filter leaves no underlying, it returns normally, fetches neither
\* contracts nor snapshots and sells nothing, with or without a strategy
\* logger.
C12_NoUnderlyingStopsQuietly ==
    (SellFinished /\ NoUnderlyingLeft) =>
        /\ result = "None"
        /\ \A k \in 1..Len(calls) :
              calls[k] \notin {"get_options_contracts", "get_option_snapshot", "market_sell"}
        /\ sold = <<>>

\* where the contract of that symbol stands in the selected list
IndexOf(symbol) ==
    CHOOSE k \in 1..Len(put_options) : put_options[k].symbol = symbol

RECURSIVE SoldCost(_)
\* the collateral of the first n contracts sold
SoldCost(n) ==
    IF n = 0 THEN 0
    ELSE SoldCost(n - 1) + ContractSize * put_options[IndexOf(sold[n])].strike

\* C19: the collateral of the puts sold, 100 times the strike each, never
\* exceeds the buying power passed in, and every sale leaves the running
\* budget non-negative after its decrement.
C19_SalesWithinBuyingPower ==
    /\ [](sold # <<>> => SoldCost(Len(sold)) <= buying_power_in)
    /\ [][sold' # sold => buying_power' >= 0]_vars

\* Two sales that use the buying power up to the last dollar.
C19_Witness ==
    /\ SellFinished
    /\ Len(sold) >= 2
    /\ SoldCost(Len(sold)) = buying_power_in
    /\ buying_power = 0

\* how many times the gateway operation was called
CountCalls(name) == Cardinality({k \in 1..Len(calls) : calls[k] = name})

\* the call contracts of the highest score
BestCalls ==
    {call_options[k].symbol : k \in {n \in 1..Len(call_options) :
        \A j \in 1..Len(call_options) : call_options[j].score <= call_options[n].score}}

\* C13: sell_calls with fewer than 100 shares fails with the
\* insufficient-shares error before any gateway call: no contract is
\* fetched and no order is submitted.
C13_TooFewSharesFailsFirst ==
    (stock_qty < ContractSize /\ pc # "sell_calls") =>
        /\ SellFinished
        /\ result = "raised"
        /\ log = <<Msg("error", "Not enough shares", AAPL_STOCK)>>
        /\ calls = <<>>
        /\ sold = <<>>

\* One share short of a contract, and the call has failed.
C13_Witness ==
    /\ stock_qty = ContractSize - 1
    /\ SellFinished
    /\ result = "raised"

\* C14: sell_calls with at least 100 shares submits exactly one sell order,
\* for a contract of the highest score, when a contract survives the
\* filter, and none when none survives; never more than one.
C14_OneBestCallSold ==
    /\ Len(sold) <= 1
    /\ CountCalls("market_sell") = Len(sold)
    /\ (stock_qty >= ContractSize /\ SellFinished /\ pc # "sell_calls") =>
          IF call_options # <<>>
          THEN Len(sold) = 1 /\ sold[1] \in BestCalls
          ELSE sold = <<>>

\* Several contracts qualified, the best was not the first, and it alone
\* was sold.
C14_Witness ==
    /\ stock_qty >= ContractSize
    /\ SellFinished
    /\ Len(call_options) >= 3
    /\ call_options[1].score < call_options[2].score
    /\ sold = <<call_options[2].symbol>>

====
